---- MODULE Spec2Model ----
(***************************************************************************)
(* Model of src/ziggy/lib/utils.go: the chunk reader (readChunks,          *)
(* readRemoteChunks, readChunk, readRemoteChunk) and the OSDB hash         *)
(* (OSDBHashFile).                                                         *)
(*                                                                         *)
(* Strings are sequences of one-character strings, so that prefix tests,   *)
(* decimal parsing/formatting and hexadecimal formatting are computed.     *)
(* A uint64 is a tuple of 8 bytes, least significant first, because the    *)
(* values do not fit TLC's integers; addition propagates carries and drops *)
(* the last one (wraparound).                                              *)
(* A source is all zero bytes except at a few marked positions, and a      *)
(* buffer is kept as its length and its non-zero bytes: a 128KiB buffer    *)
(* is then a small value.                                                  *)
(* One behaviour is one call, of OSDBHashFile or of readChunks itself, on  *)
(* one source that is served both as a local file and by an HTTP server.   *)
(* The operating system and the server are the environment: opening,       *)
(* stat, reads and requests may fail, and the server answers a Range it    *)
(* cannot satisfy with an error response, whose body the code reads like   *)
(* any other.                                                              *)
(***************************************************************************)
EXTENDS Integers, Sequences, FiniteSets, TLC

\* utils.go:40
OSDBChunkSize == 65536

\* Longest span list of a direct readChunks call.
MaxSpans == 2

-----------------------------------------------------------------------------
(* Strings *)

DigitChars == <<"0", "1", "2", "3", "4", "5", "6", "7", "8", "9">>
HexChars == <<"0", "1", "2", "3", "4", "5", "6", "7", "8", "9",
              "a", "b", "c", "d", "e", "f">>

\* strings.HasPrefix
HasPrefix(s, prefix) ==
    /\ Len(s) >= Len(prefix)
    /\ SubSeq(s, 1, Len(prefix)) = prefix

IsDigit(c) == \E d \in 1..10 : DigitChars[d] = c
DigitValue(c) == (CHOOSE d \in 1..10 : DigitChars[d] = c) - 1

RECURSIVE FormatUint(_)
FormatUint(n) ==
    IF n < 10 THEN <<DigitChars[n + 1]>>
    ELSE FormatUint(n \div 10) \o <<DigitChars[(n % 10) + 1]>>

\* strconv.Itoa
Itoa(n) == IF n < 0 THEN <<"-">> \o FormatUint(-n) ELSE FormatUint(n)

RECURSIVE ParseUint(_)
ParseUint(s) ==
    IF s = <<>> THEN 0
    ELSE ParseUint(SubSeq(s, 1, Len(s) - 1)) * 10 + DigitValue(s[Len(s)])

\* strconv.ParseInt(s, 10, 64): an optional sign, then one or more decimal
\* digits; anything else is a syntax error with value 0.  (No value of the
\* model is near the int64 range, so the range error is not modelled.)
ParseInt(s) ==
    LET signed == s # <<>> /\ s[1] \in {"+", "-"}
        digits == IF signed THEN Tail(s) ELSE s
    IN  IF digits = <<>> \/ \E i \in 1..Len(digits) : ~IsDigit(digits[i])
        THEN [val |-> 0, err |-> "syntax"]
        ELSE [val |-> IF signed /\ s[1] = "-" THEN -ParseUint(digits)
                      ELSE ParseUint(digits),
              err |-> "nil"]

-----------------------------------------------------------------------------
(* 64-bit unsigned arithmetic on 8 little-endian bytes *)

Zero64 == [j \in 1..8 |-> 0]

RECURSIVE Pow256(_)
Pow256(k) == IF k = 0 THEN 1 ELSE 256 * Pow256(k - 1)

\* uint64(n) for 0 <= n < 2^31
Uint64(n) == [j \in 1..8 |-> IF j <= 4 THEN (n \div Pow256(j - 1)) % 256 ELSE 0]

RECURSIVE Carry(_, _, _)
Carry(a, b, j) == IF j = 0 THEN 0 ELSE (a[j] + b[j] + Carry(a, b, j - 1)) \div 256

\* a + b on uint64: the carry out of the top byte is lost
Add64(a, b) == [j \in 1..8 |-> (a[j] + b[j] + Carry(a, b, j - 1)) % 256]

-----------------------------------------------------------------------------
(* Buffers: make([]byte, n) is all zero; nz holds the non-zero bytes by   *)
(* 0-based position.                                                       *)

MakeBuf(n) == [len |-> n, nz |-> <<>>]

BufAt(b, p) == IF p \in DOMAIN b.nz THEN b.nz[p] ELSE 0

\* copy(dst[at:at+n], data) where data is a function on 0..n-1 given by its
\* non-zero bytes
Store(b, at, data) ==
    [b EXCEPT !.nz = [q \in {at + p : p \in DOMAIN data} |-> data[q - at]] @@ b.nz]

-----------------------------------------------------------------------------
(* The environment: one source, reachable as a local file and over HTTP *)

VARIABLES
    srcSize,              \* S, the size of the source in bytes
    srcMarked,            \* the positions of its non-zero bytes
    entry,                \* "OSDBHashFile" or "readChunks": the function called
    filePath,             \* the call's arguments
    minimumRequiredSize,
    chunks,
    pc,                   \* where the call is
    fileSize,             \* readChunks' named results
    buf,
    err,
    filled,               \* bytes of buf filled so far
    next,                 \* index in chunks of the span the loop is at
    open,                 \* the file handles and response bodies not closed
    log,                  \* the span reads issued, in order
    header,               \* the headers of the HEAD response
    resp,                 \* the body of the GET response being read
    hash,                 \* OSDBHashFile's result
    folded,               \* OSDBHashFile got past its error return (line 162)
    faulty                \* the environment failed or held back bytes

vars == <<srcSize, srcMarked, entry, filePath, minimumRequiredSize, chunks, pc,
          fileSize, buf, err, filled, next, open, log, header, resp, hash, folded,
          faulty>>

Sizes == {0, OSDBChunkSize - 1, OSDBChunkSize, 2 * OSDBChunkSize - 1,
          2 * OSDBChunkSize, 2 * OSDBChunkSize + 8}

\* The non-zero byte at a marked position; 255 in the top byte of a word so
\* that a few words overflow 64 bits.
MarkByte(p) == IF p % 8 = 7 THEN 255 ELSE (p % 250) + 1

Marks(S) == {0, 7, OSDBChunkSize - 1, S - OSDBChunkSize, S - 1} \cap (0..(S - 1))

SrcAt(p) == IF p \in srcMarked THEN MarkByte(p) ELSE 0

\* the source's bytes [from, from + k), as the non-zero ones by position
\* relative to from
SrcData(from, k) ==
    [p \in {q - from : q \in {m \in srcMarked : from <= m /\ m < from + k}}
        |-> MarkByte(p + from)]

LocalPath == <<"/", "m", "/", "a">>
HttpPath == <<"h", "t", "t", "p", ":", "/", "/", "h", "/", "a">>
HttpsPath == <<"h", "t", "t", "p", "s", ":", "/", "/", "h", "/", "a">>
Paths == {LocalPath, HttpPath, HttpsPath}

Minimums == {0, 2 * OSDBChunkSize}
\* type chunkInfo: the spans a direct call may ask for, in and out of the
\* source's bounds; sizes are not negative (a negative one panics in make or
\* in the slice expression)
chunkInfo ==
    {[offset |-> 0, size |-> OSDBChunkSize],
     [offset |-> -2, size |-> 2],
     [offset |-> -2, size |-> OSDBChunkSize],
     [offset |-> 2 * OSDBChunkSize + 8, size |-> 2]}

SpanLists == UNION {[1..n -> chunkInfo] : n \in 0..MaxSpans}

NoBuf == [len |-> 0, nz |-> <<>>]
NoResp == [status |-> 0, kind |-> "none", from |-> 0, len |-> 0]

Init ==
    /\ srcSize \in Sizes
    /\ srcMarked \in {{}, Marks(srcSize)}
    /\ entry = "none"
    /\ filePath = <<>>
    /\ minimumRequiredSize = 0
    /\ chunks = <<>>
    /\ pc = "idle"
    /\ fileSize = 0
    /\ buf = NoBuf
    /\ err = "nil"
    /\ filled = 0
    /\ next = 1
    /\ open = {}
    /\ log = <<>>
    /\ header = <<>>
    /\ resp = NoResp
    /\ hash = <<>>
    /\ folded = FALSE
    /\ faulty = FALSE

-----------------------------------------------------------------------------
(* readChunks *)

\* utils.go:101
IsRemote(path) ==
    \/ HasPrefix(path, <<"h", "t", "t", "p", ":", "/", "/">>)
    \/ HasPrefix(path, <<"h", "t", "t", "p", "s", ":", "/", "/">>)

\* utils.go:102: the minimum readChunks hands to readRemoteChunks
RemoteMinimum(m) == OSDBChunkSize

\* a faulty variant of the size check, off by one
TooSmallMut(size, m) == size < m - 1

\* utils.go:74 and 119
TooSmall(size, m) == size < m

\* utils.go:79-82 and 124-127
RECURSIVE TotalBufferNeeded(_)
TotalBufferNeeded(spans) ==
    IF spans = <<>> THEN 0
    ELSE TotalBufferNeeded(SubSeq(spans, 1, Len(spans) - 1)) + spans[Len(spans)].size

\* a faulty variant that leaves a negative offset as it is
ResolveMut(span, size) == span.offset

\* utils.go:87-90 and 132-135
Resolve(span, size) == IF span.offset < 0 THEN span.offset + size ELSE span.offset

\* the entry of readChunks, lines 100-104: the backend is chosen by prefix
Enter(fn, path, m, spans) ==
    /\ pc = "idle"
    /\ entry' = fn
    /\ filePath' = path
    /\ minimumRequiredSize' = m
    /\ chunks' = spans
    /\ pc' = IF IsRemote(path) THEN "head" ELSE "open"
    /\ UNCHANGED <<srcSize, srcMarked, fileSize, buf, err, filled, next, open,
                   log, header, resp, hash, folded, faulty>>

\* a direct call readChunks(path, m, spans...)
CallReadChunks ==
    \E path \in Paths, m \in Minimums, spans \in SpanLists :
        Enter("readChunks", path, m, spans)

\* utils.go:151-154
OSDBSpans == <<[offset |-> 0, size |-> OSDBChunkSize],
               [offset |-> -OSDBChunkSize, size |-> OSDBChunkSize]>>

\* OSDBHashFile(path) up to its call of readChunks, lines 147-156
CallOSDBHashFile ==
    \E path \in Paths : Enter("OSDBHashFile", path, OSDBChunkSize, OSDBSpans)

\* readChunks returns with the error e (a bare return of the named results)
Fail(e) ==
    /\ err' = e
    /\ pc' = "ret"

\* os.Open, lines 106-110.  Nothing closes the file later on.
Open ==
    /\ pc = "open"
    /\ \E ok \in BOOLEAN :
        IF ok
        THEN /\ open' = open \cup {"file"}
             /\ pc' = "stat"
             /\ UNCHANGED <<err, faulty>>
        ELSE /\ Fail("couldn't open file for hashing")
             /\ faulty' = TRUE
             /\ UNCHANGED open
    /\ UNCHANGED <<srcSize, srcMarked, entry, filePath, minimumRequiredSize,
                   chunks, fileSize, buf, filled, next, log, header, resp, hash,
                   folded>>

\* file.Stat, the size check and the allocation, lines 112-130
Stat ==
    /\ pc = "stat"
    /\ \E ok \in BOOLEAN :
        IF ~ok
        THEN /\ Fail("couldn't stat file for hashing")
             /\ faulty' = TRUE
             /\ UNCHANGED <<fileSize, buf, filled, next>>
        ELSE /\ fileSize' = srcSize
             /\ UNCHANGED faulty
             /\ IF TooSmall(srcSize, minimumRequiredSize)
                THEN /\ Fail("file is too small to generate a valid hash")
                     /\ UNCHANGED <<buf, filled, next>>
                ELSE /\ buf' = MakeBuf(TotalBufferNeeded(chunks))
                     /\ filled' = 0
                     /\ next' = 1
                     /\ pc' = "read"
                     /\ UNCHANGED err
    /\ UNCHANGED <<srcSize, srcMarked, entry, filePath, minimumRequiredSize,
                   chunks, open, log, header, resp, hash, folded>>

\* (*os.File).ReadAt(b, off) with len(b) = n: a negative offset is an error;
\* an empty b reads nothing; otherwise the bytes up to the end of the file
\* are read, and fewer than n come with io.EOF.  io = "eio" is the device
\* failing.
ReadAt(off, n, io) ==
    IF off < 0 THEN [n |-> 0, err |-> "negative offset"]
    ELSE IF n = 0 THEN [n |-> 0, err |-> "nil"]
    ELSE IF io = "eio" THEN [n |-> 0, err |-> "input/output error"]
    ELSE LET avail == IF srcSize - off < 0 THEN 0
                      ELSE IF srcSize - off < n THEN srcSize - off ELSE n
         IN  [n |-> avail, err |-> IF avail < n THEN "EOF" ELSE "nil"]

\* readChunk, lines 205-214, given what ReadAt returned
ReadChunkErr(ra) ==
    IF ra.err # "nil" THEN ra.err
    ELSE IF ra.n # OSDBChunkSize THEN "invalid read"
    ELSE "nil"

\* one turn of the loop of lines 131-141
ReadSpan ==
    /\ pc = "read"
    /\ next <= Len(chunks)
    /\ \E io \in {"ok", "eio"} :
        LET span == chunks[next]
            start == Resolve(span, fileSize)
            ra == ReadAt(start, span.size, io)
            e == ReadChunkErr(ra)
        IN  /\ log' = Append(log, [op |-> "ReadAt", idx |-> next, start |-> start,
                                   size |-> span.size, at |-> filled,
                                   n |-> ra.n, raErr |-> ra.err, err |-> e])
            /\ buf' = Store(buf, filled, SrcData(start, ra.n))
            /\ faulty' = (faulty \/ ra.err = "input/output error")
            /\ IF e # "nil"
               THEN /\ Fail(e)
                    /\ UNCHANGED <<filled, next>>
               ELSE /\ filled' = filled + span.size
                    /\ next' = next + 1
                    /\ UNCHANGED <<err, pc>>
    /\ UNCHANGED <<srcSize, srcMarked, entry, filePath, minimumRequiredSize,
                   chunks, fileSize, open, header, resp, hash, folded>>

\* lines 97 and 143: every span is read
ReturnChunks ==
    /\ pc \in {"read", "get"}
    /\ next > Len(chunks)
    /\ err' = "nil"
    /\ pc' = "ret"
    /\ UNCHANGED <<srcSize, srcMarked, entry, filePath, minimumRequiredSize,
                   chunks, fileSize, buf, filled, next, open, log, header, resp,
                   hash, folded, faulty>>

-----------------------------------------------------------------------------
(* readRemoteChunks and the server *)

Bytes == <<"b", "y", "t", "e", "s">>
None == <<"n", "o", "n", "e">>

\* http.Header of the HEAD response: a map from a header's name to its values
Header(ar, cl) ==
    [k \in (IF ar = <<>> THEN {} ELSE {"Accept-Ranges"})
            \cup (IF cl = <<>> THEN {} ELSE {"Content-Length"})
        |-> IF k = "Accept-Ranges" THEN ar ELSE cl]

\* what a server may answer to HEAD: Accept-Ranges absent, bytes, none, or
\* none then bytes; Content-Length absent, the size, or not a number
HeadResponses ==
    {Header(ar, cl) : ar \in {<<>>, <<Bytes>>, <<None>>, <<None, Bytes>>},
                      cl \in {<<>>, <<Itoa(srcSize)>>, <<<<"1", "k">>>>}}

\* a faulty variant that lets a response without the header through
RangeUnsupportedMut(hd) ==
    "Accept-Ranges" \in DOMAIN hd /\ hd["Accept-Ranges"][1] # Bytes

\* utils.go:64
RangeUnsupported(hd) ==
    "Accept-Ranges" \notin DOMAIN hd \/ hd["Accept-Ranges"][1] # Bytes

\* utils.go:69: header["Content-Length"][0] of a missing header indexes a nil
\* slice, which panics
ContentLengthPanics(hd) == "Content-Length" \notin DOMAIN hd

\* the HEAD request, the checks of its response and the allocation,
\* lines 53-85.  Nothing closes the response's body.
HeadRequest ==
    /\ pc = "head"
    /\ \/ /\ Fail("net")
          /\ faulty' = TRUE
          /\ UNCHANGED <<fileSize, buf, filled, next, open, header>>
       \/ \E h \in HeadResponses :
            /\ header' = h
            /\ open' = open \cup {"HEAD body"}
            /\ faulty' = (h # Header(<<Bytes>>, <<Itoa(srcSize)>>))
            /\ IF RangeUnsupported(h)
               THEN /\ Fail("URL doesn't support range fetch")
                    /\ UNCHANGED <<fileSize, buf, filled, next>>
               ELSE IF ContentLengthPanics(h)
               THEN /\ pc' = "panic"
                    /\ UNCHANGED <<err, fileSize, buf, filled, next>>
               ELSE LET parsed == ParseInt(h["Content-Length"][1])
                    IN  /\ fileSize' = parsed.val
                        /\ IF parsed.err # "nil"
                           THEN /\ Fail(parsed.err)
                                /\ UNCHANGED <<buf, filled, next>>
                           ELSE IF TooSmall(parsed.val, RemoteMinimum(minimumRequiredSize))
                           THEN /\ Fail("file is too small to generate a valid hash")
                                /\ UNCHANGED <<buf, filled, next>>
                           ELSE /\ buf' = MakeBuf(TotalBufferNeeded(chunks))
                                /\ filled' = 0
                                /\ next' = 1
                                /\ pc' = "get"
                                /\ UNCHANGED err
    /\ UNCHANGED <<srcSize, srcMarked, entry, filePath, minimumRequiredSize,
                   chunks, log, resp, hash, folded>>

\* utils.go:185
RangeHeader(offset, n) ==
    <<"b", "y", "t", "e", "s", "=">> \o Itoa(offset) \o <<"-">> \o Itoa(offset + n - 1)

IndexOf(s, c) ==
    IF \E i \in 1..Len(s) : s[i] = c
    THEN CHOOSE i \in 1..Len(s) : s[i] = c /\ \A j \in 1..(i - 1) : s[j] # c
    ELSE 0

AllDigits(s) == s # <<>> /\ \A i \in 1..Len(s) : IsDigit(s[i])

\* The server's reading of a Range header (RFC 7233): bytes=first-last,
\* bytes=first- or bytes=-suffixLength.
ParseRange(h) ==
    LET spec == SubSeq(h, 7, Len(h))
        i == IndexOf(spec, "-")
        firstS == SubSeq(spec, 1, i - 1)
        lastS == SubSeq(spec, i + 1, Len(spec))
        invalid == [kind |-> "invalid", first |-> 0, last |-> 0]
    IN  IF ~HasPrefix(h, <<"b", "y", "t", "e", "s", "=">>) \/ i = 0 THEN invalid
        ELSE IF firstS = <<>>
        THEN IF ~AllDigits(lastS) THEN invalid
             ELSE [kind |-> "range",
                   first |-> IF ParseUint(lastS) >= srcSize THEN 0
                             ELSE srcSize - ParseUint(lastS),
                   last |-> srcSize - 1]
        ELSE IF ~AllDigits(firstS) THEN invalid
        ELSE IF lastS = <<>>
        THEN [kind |-> "range", first |-> ParseUint(firstS), last |-> srcSize - 1]
        ELSE IF ~AllDigits(lastS) \/ ParseUint(lastS) < ParseUint(firstS) THEN invalid
        ELSE [kind |-> "range", first |-> ParseUint(firstS), last |-> ParseUint(lastS)]

\* the start of the body of an error response ("<h1"); a real one is longer
ErrPage == <<60, 104, 49>>

\* What a server holding the source may answer a GET with: 206 and the range
\* asked for, cut at the end of the source; 416 and an error page when the
\* range starts past the end; 416 and an error page, or 200 and the whole
\* source (the header ignored), when the header is not a valid range.
Serve(h) ==
    LET r == ParseRange(h)
        page == [status |-> 416, kind |-> "page", from |-> 0, len |-> Len(ErrPage)]
    IN  IF r.kind = "invalid"
        THEN {page, [status |-> 200, kind |-> "src", from |-> 0, len |-> srcSize]}
        ELSE IF r.first >= srcSize \/ r.last < r.first THEN {page}
        ELSE {[status |-> 206, kind |-> "src", from |-> r.first,
               len |-> (IF r.last < srcSize THEN r.last ELSE srcSize - 1) - r.first + 1]}

\* the first k bytes of a body
BodyData(r, k) ==
    IF r.kind = "src" THEN SrcData(r.from, k)
    ELSE [p \in 0..(k - 1) |-> ErrPage[p + 1]]

\* readRemoteChunk up to client.Do, lines 180-191, for the span the loop of
\* lines 86-96 is at.  The connection may fail, and the body may end early.
\* The response's status is not looked at.
GetDo ==
    /\ pc = "get"
    /\ next <= Len(chunks)
    /\ LET span == chunks[next]
           start == Resolve(span, fileSize)
           h == RangeHeader(start, span.size)
       IN  /\ log' = Append(log, [op |-> "GET", idx |-> next, start |-> start,
                                  size |-> span.size, at |-> filled])
           /\ \/ /\ Fail("net")
                 /\ faulty' = TRUE
                 /\ UNCHANGED <<open, resp>>
              \/ \E body \in Serve(h), cut \in BOOLEAN :
                    /\ resp' = [body EXCEPT !.len = IF cut THEN body.len \div 2 ELSE body.len]
                    /\ open' = open \cup {"GET body"}
                    /\ faulty' = (faulty \/ cut)
                    /\ pc' = "getread"
                    /\ UNCHANGED err
    /\ UNCHANGED <<srcSize, srcMarked, entry, filePath, minimumRequiredSize,
                   chunks, fileSize, buf, filled, next, header, hash, folded>>

\* io.ReadFull(body, b) with len(b) = n
ReadFull(body, n) ==
    IF n = 0 THEN [n |-> 0, err |-> "nil"]
    ELSE IF body.len >= n THEN [n |-> n, err |-> "nil"]
    ELSE IF body.len = 0 THEN [n |-> 0, err |-> "EOF"]
    ELSE [n |-> body.len, err |-> "unexpected EOF"]

\* readRemoteChunk, lines 194-201, given what ReadFull returned
RemoteChunkErr(rf, n) ==
    IF rf.err # "nil" THEN rf.err
    ELSE IF rf.n # n THEN "invalid read"
    ELSE "nil"

\* the rest of readRemoteChunk, lines 192-201, and of the loop's turn,
\* lines 92-95: the body is read into the span's slice and closed
GetRead ==
    /\ pc = "getread"
    /\ LET span == chunks[next]
           rf == ReadFull(resp, span.size)
           e == RemoteChunkErr(rf, span.size)
       IN  /\ buf' = Store(buf, filled, BodyData(resp, rf.n))
           /\ open' = open \ {"GET body"}
           /\ resp' = NoResp
           /\ IF e # "nil"
              THEN /\ Fail(e)
                   /\ UNCHANGED <<filled, next>>
              ELSE /\ filled' = filled + span.size
                   /\ next' = next + 1
                   /\ pc' = "get"
                   /\ UNCHANGED err
    /\ UNCHANGED <<srcSize, srcMarked, entry, filePath, minimumRequiredSize,
                   chunks, fileSize, log, header, hash, folded, faulty>>

-----------------------------------------------------------------------------
(* OSDBHashFile *)

\* utils.go:163: the length of nums
NumWords == (OSDBChunkSize * 2) \div 8

\* binary.Read, little endian: nums[k] is the bytes 8k .. 8k+7 of the buffer
Word(b, k) == [j \in 1..8 |-> BufAt(b, 8 * k + j - 1)]

\* the loop of lines 169-172 in index order; a word without a non-zero byte
\* is 0 and adds nothing, so the words in ks are the others
RECURSIVE SumWords(_, _, _)
SumWords(b, ks, acc) ==
    IF ks = {} THEN acc
    ELSE LET k == CHOOSE x \in ks : \A y \in ks : x <= y
         IN  SumWords(b, ks \ {k}, Add64(acc, Word(b, k)))

NonZeroWords(b) == {p \div 8 : p \in DOMAIN b.nz} \cap (0..(NumWords - 1))

\* the digits of %x: most significant first, without leading zeros
RECURSIVE TrimZeros(_)
TrimZeros(ds) ==
    IF Len(ds) > 1 /\ ds[1] = 0 THEN TrimZeros(Tail(ds)) ELSE ds

HexDigits(u) ==
    TrimZeros([i \in 1..16 |->
        LET byte == u[8 - ((i - 1) \div 2)]
        IN  IF i % 2 = 1 THEN byte \div 16 ELSE byte % 16])

RECURSIVE PadLeft(_, _, _)
PadLeft(s, width, c) == IF Len(s) >= width THEN s ELSE PadLeft(<<c>> \o s, width, c)

\* a faulty variant, "%x": no padding
SprintfXMut(u) == LET ds == HexDigits(u) IN [i \in 1..Len(ds) |-> HexChars[ds[i] + 1]]

\* fmt.Sprintf("%016x", u), line 176
Sprintf016x(u) ==
    LET ds == HexDigits(u)
    IN  PadLeft([i \in 1..Len(ds) |-> HexChars[ds[i] + 1]], 16, "0")

\* a faulty variant that adds the buffer's length, not the source's size
HashUintMut(b, size) == Add64(SumWords(b, NonZeroWords(b), Zero64), Uint64(b.len))

\* lines 169-174
HashUint(b, size) == Add64(SumWords(b, NonZeroWords(b), Zero64), Uint64(size))

\* OSDBHashFile after readChunks returned, lines 158-176
Hash ==
    /\ pc = "ret"
    /\ entry = "OSDBHashFile"
    /\ pc' = "done"
    /\ IF err # "nil"
       THEN UNCHANGED <<hash, err, folded>>
       ELSE /\ folded' = TRUE
            /\ IF buf.len < 8 * NumWords
               THEN /\ err' = IF buf.len = 0 THEN "EOF" ELSE "unexpected EOF"
                    /\ UNCHANGED hash
               ELSE /\ hash' = Sprintf016x(HashUint(buf, fileSize))
                    /\ UNCHANGED err
    /\ UNCHANGED <<srcSize, srcMarked, entry, filePath, minimumRequiredSize,
                   chunks, fileSize, buf, filled, next, open, log, header, resp,
                   faulty>>

Next ==
    \/ CallReadChunks
    \/ CallOSDBHashFile
    \/ Open
    \/ Stat
    \/ ReadSpan
    \/ HeadRequest
    \/ GetDo
    \/ GetRead
    \/ ReturnChunks
    \/ Hash

Spec == Init /\ [][Next]_vars

-----------------------------------------------------------------------------
(* Properties *)

TooSmallError == "file is too small to generate a valid hash"
RangeError == "URL doesn't support range fetch"

\* readChunks has returned to its caller
Returned == pc \in {"ret", "done"}

IsHex16(s) ==
    /\ Len(s) = 16
    /\ \A i \in 1..16 : \E d \in 1..16 : s[i] = HexChars[d]

\* C1: when OSDBHashFile has returned for a source of at least 131072 bytes,
\* local or remote, and the environment did not fail (the file opened, the
\* server answered with Accept-Ranges: bytes and the size, every span read
\* delivered its bytes), the error is nil and the hash is 16 characters, each
\* one of 0-9a-f.
C1_LargeSourceHashes ==
    (pc = "done" /\ srcSize >= 2 * OSDBChunkSize /\ ~faulty)
        => (err = "nil" /\ IsHex16(hash))

C1_Witness ==
    /\ pc = "done"
    /\ srcSize = 2 * OSDBChunkSize + 8
    /\ ~faulty
    /\ IsRemote(filePath)
    /\ srcMarked # {}
    /\ err = "nil"
    /\ IsHex16(hash)

\* C2, as stated: an OSDBHashFile call on a source of fewer than 131072
\* bytes issues no span read, never reaches the folding step, and returns
\* the source-too-small error (when the environment did not fail before).
C2_Original ==
    (entry = "OSDBHashFile" /\ srcSize < 2 * OSDBChunkSize)
        => /\ log = <<>>
           /\ ~folded
           /\ (pc = "done" /\ ~faulty) => err = TooSmallError

\* C2, amended: an OSDBHashFile call on a source of fewer than 65536 bytes
\* (OSDBChunkSize, the minimum OSDBHashFile passes) issues no span read,
\* never reaches the folding step, and returns the source-too-small error
\* (when the environment did not fail before).
C2_SmallSourceRejected ==
    (entry = "OSDBHashFile" /\ srcSize < OSDBChunkSize)
        => /\ log = <<>>
           /\ ~folded
           /\ (pc = "done" /\ ~faulty) => err = TooSmallError

C2_Witness ==
    /\ entry = "OSDBHashFile"
    /\ pc = "done"
    /\ srcSize = OSDBChunkSize - 1
    /\ srcMarked # {}
    /\ err = TooSmallError
    /\ log = <<>>
    /\ hash = <<>>

RECURSIVE SetSum(_, _)
SetSum(f, ps) ==
    IF ps = {} THEN 0
    ELSE LET p == CHOOSE x \in ps : TRUE IN f[p] + SetSum(f, ps \ {p})

\* The sum of the buffer's words and of T, byte column by byte column: the
\* bytes of weight 256^(j-1) of every word of the first 16384, plus that byte
\* of T (T < 2^31 has four), plus the carry of the column below.
RefColumn(b, T, j) ==
    SetSum(b.nz, {p \in DOMAIN b.nz : p % 8 = j - 1 /\ p < 2 * OSDBChunkSize})
        + (IF j <= 4 THEN (T \div Pow256(j - 1)) % 256 ELSE 0)

RECURSIVE RefCarry(_, _, _)
RefCarry(b, T, j) ==
    IF j = 0 THEN 0 ELSE (RefColumn(b, T, j) + RefCarry(b, T, j - 1)) \div 256

\* hexadecimal digit i (1 is the most significant of 16) of (X + T) mod 2^64
RefNibble(b, T, i) ==
    LET j == 8 - ((i - 1) \div 2)
        byte == (RefColumn(b, T, j) + RefCarry(b, T, j - 1)) % 256
    IN  IF i % 2 = 1 THEN byte \div 16 ELSE byte % 16

\* C3: when OSDBHashFile succeeds, its result is the 16 lowercase
\* hexadecimal digits, most significant first and zero-padded, of (X + T) mod
\* 2^64, X being the wrapping sum of the buffer's little-endian 64-bit words
\* and T the size of the source; an all-zero source of 131072 bytes gives
\* "0000000000020000".
C3_FoldingCorrect ==
    (pc = "done" /\ err = "nil")
        => /\ Len(hash) = 16
           /\ \A i \in 1..16 : hash[i] = HexChars[RefNibble(buf, srcSize, i) + 1]
           /\ (srcMarked = {} /\ srcSize = 2 * OSDBChunkSize)
                => hash = <<"0", "0", "0", "0", "0", "0", "0", "0",
                            "0", "0", "0", "2", "0", "0", "0", "0">>

\* a successful hash whose sum overflowed 64 bits, of a source whose size is
\* not the buffer's length
C3_Witness ==
    /\ pc = "done"
    /\ err = "nil"
    /\ srcSize = 2 * OSDBChunkSize + 8
    /\ RefCarry(buf, srcSize, 8) > 0
    /\ Len(hash) = 16

\* C4, as stated: when readChunks has returned (or aborted), the local file,
\* the HEAD response's body and every GET response's body are closed.
C4_Original == (Returned \/ pc = "panic") => open = {}

\* the HEAD response lacks Accept-Ranges, or its first value is not "bytes"
NoRangeSupport ==
    /\ "HEAD body" \in open
    /\ \/ "Accept-Ranges" \notin DOMAIN header
       \/ header["Accept-Ranges"][1] # Bytes

\* C5: once the HEAD response has come without Accept-Ranges, or with a
\* first Accept-Ranges value other than "bytes", the call has returned the
\* range-unsupported error and has issued no GET, whatever the
\* Content-Length, the minimum and the spans are.
C5_NoFetchWithoutRanges ==
    NoRangeSupport
        => /\ Returned
           /\ err = RangeError
           /\ \A i \in 1..Len(log) : log[i].op # "GET"

\* a server that lists "bytes" second and gives a size that passes the size
\* check, for a call that asks for spans
C5_Witness ==
    /\ NoRangeSupport
    /\ header = Header(<<None, Bytes>>, <<Itoa(srcSize)>>)
    /\ srcSize >= OSDBChunkSize
    /\ chunks # <<>>
    /\ pc = "ret"
    /\ err = RangeError
    /\ log = <<>>

\* the resolved offset of span i on a source of size S
Resolved(i) ==
    IF chunks[i].offset >= 0 THEN chunks[i].offset ELSE srcSize + chunks[i].offset

RECURSIVE SizesBefore(_)
SizesBefore(i) == IF i = 1 THEN 0 ELSE SizesBefore(i - 1) + chunks[i - 1].size

\* C6, as stated: when readChunks returns without an error, the buffer's
\* length is the sum of the spans' sizes, one read per span was issued, in
\* the order of the spans, and the buffer holds at size_1 + ... + size_(i-1)
\* the size_i bytes of the source from the resolved offset r_i on.
C6_Original ==
    (pc = "ret" /\ err = "nil")
        => /\ buf.len = SizesBefore(Len(chunks) + 1)
           /\ Len(log) = Len(chunks)
           /\ \A i \in 1..Len(chunks) :
                /\ log[i].idx = i
                /\ log[i].start = Resolved(i)
                /\ Resolved(i) >= 0
                /\ Resolved(i) + chunks[i].size <= srcSize
                /\ \A p \in (DOMAIN buf.nz) \cup {q - Resolved(i) + SizesBefore(i) : q \in srcMarked} :
                     (SizesBefore(i) <= p /\ p < SizesBefore(i) + chunks[i].size)
                        => BufAt(buf, p) = SrcAt(Resolved(i) + p - SizesBefore(i))

\* the size check was passed: the span loop was entered
Accepted ==
    \/ pc \in {"read", "get", "getread"}
    \/ log # <<>>
    \/ (pc = "ret" /\ err = "nil")

\* C7, as stated: readChunks rejects a source as too small exactly when its
\* size is below the caller's minimumRequiredSize, for a local path and for
\* a URL alike.
C7_Original ==
    /\ err = TooSmallError => srcSize < minimumRequiredSize
    /\ Accepted => srcSize >= minimumRequiredSize

\* the HEAD response has Accept-Ranges: bytes and no Content-Length, or one
\* that is not a number
BadContentLength ==
    /\ "HEAD body" \in open
    /\ ~NoRangeSupport
    /\ \/ "Content-Length" \notin DOMAIN header
       \/ ParseInt(header["Content-Length"][1]).err # "nil"

\* C8, as stated: once the HEAD response has come with Accept-Ranges: bytes
\* and a missing or unparsable Content-Length, the call has returned an
\* error (it has not panicked) and has issued no GET.
C8_Original ==
    BadContentLength
        => /\ pc # "panic"
           /\ Returned
           /\ err # "nil"
           /\ \A i \in 1..Len(log) : log[i].op # "GET"

\* C9, as stated: a local span read succeeds if and only if the positioned
\* read returned, without an error, as many bytes as the span's size.
C9_Original ==
    \A i \in 1..Len(log) :
        log[i].op = "ReadAt"
            => (log[i].err = "nil" <=> (log[i].raErr = "nil" /\ log[i].n = log[i].size))

\* every span read issued so far lies inside the source
ReadsInBounds ==
    \A i \in 1..Len(log) :
        /\ log[i].start >= 0
        /\ log[i].start + log[i].size <= srcSize

\* C10, as stated: every span read issued, by the local or the remote
\* backend, for any span list and minimum, has r >= 0 and r + size <= S.
C10_Original == ReadsInBounds

\* C10, amended: every span read issued in a call of OSDBHashFile, by the
\* local or the remote backend, has r >= 0 and r + size <= S.
C10_HashReadsInBounds == entry = "OSDBHashFile" => ReadsInBounds

\* both spans read from a remote source of exactly 65536 bytes
C10_Witness ==
    /\ entry = "OSDBHashFile"
    /\ IsRemote(filePath)
    /\ srcSize = OSDBChunkSize
    /\ Len(log) = 2
    /\ log[2].start = 0
    /\ pc = "done"
    /\ err = "nil"

====
